---------------------------- MODULE Spec2Model ----------------------------
(***************************************************************************)
(* A model of src/main.py: the FastAPI service that tracks background      *)
(* jobs in the in-memory registry `tasks`, the single-restaurant job       *)
(* process_restaurant_data, the dish-search job process_dish_search with   *)
(* its ranking step and its per-candidate analysis units.                  *)
(*                                                                         *)
(* Conventions.                                                            *)
(*  - A Python str is a sequence of one-character strings, so that slicing,*)
(*    endswith and the \b of the regular expression act on characters.     *)
(*  - A rating r is kept as 10*r, a combined_score as 100*score and an     *)
(*    ai_score as 100*score, all integers.                                 *)
(*  - A Python value whose type varies is a tagged record: Num(n), Str(s), *)
(*    List(s), None, and Absent for a key missing from a dict.             *)
(***************************************************************************)
EXTENDS Integers, Sequences, FiniteSets, TLC

None == [none |-> TRUE]
Absent == [absent |-> TRUE]
Num(n) == [num |-> n]
Str(s) == [str |-> s]
List(s) == [list |-> s]
IsNum(v) == DOMAIN v = {"num"}
IsStr(v) == DOMAIN v = {"str"}

Min(a, b) == IF a < b THEN a ELSE b

\* dict.get(key, default)
Get(v, default) == IF v = Absent THEN default ELSE v

(***************************************************************************)
(* Python list operations.                                                 *)
(***************************************************************************)
\* s[:n]
Take(s, n) == SubSeq(s, 1, Min(n, Len(s)))

\* s[n:]
Drop(s, n) == SubSeq(s, n + 1, Len(s))

\* list.sort(key=..., reverse=True) of a list whose keys are keys[1..n]: the
\* order is descending by key and stable (equal keys keep their order).
SortDescOrder(keys) ==
    LET n == Len(keys)
        Before(j, i) == keys[j] > keys[i] \/ (keys[j] = keys[i] /\ j < i)
        Pos(i) == 1 + Cardinality({j \in 1..n : Before(j, i)})
    IN  [p \in 1..n |-> CHOOSE i \in 1..n : Pos(i) = p]

\* A faulty variant: ascending order (reverse=True forgotten).
SortDescByAscending(s, keys) ==
    LET n == Len(keys)
        Before(j, i) == keys[j] < keys[i] \/ (keys[j] = keys[i] /\ j < i)
        Pos(i) == 1 + Cardinality({j \in 1..n : Before(j, i)})
    IN  [p \in 1..n |-> s[CHOOSE i \in 1..n : Pos(i) = p]]

SortDescBy(s, keys) ==
    LET order == SortDescOrder(keys)
    IN  [p \in 1..Len(s) |-> s[order[p]]]

(***************************************************************************)
(* Strings.                                                                *)
(***************************************************************************)
Letters == {"a", "c", "d", "l", "o", "s", "t"}
Upper == {"T"}

\* A character the regular expression's \w matches.
IsWordChar(c) == c \in Letters \cup Upper

LowerChar(c) == IF c = "T" THEN "t" ELSE c

\* str.lower()
Lower(s) == [i \in 1..Len(s) |-> LowerChar(s[i])]

\* ' ' in s
HasSpace(s) == \E i \in 1..Len(s) : s[i] = " "

\* s.split(' ')[0]
FirstWord(s) ==
    IF HasSpace(s)
    THEN SubSeq(s, 1, (CHOOSE i \in 1..Len(s) :
                          s[i] = " " /\ \A j \in 1..(i - 1) : s[j] # " ") - 1)
    ELSE s

\* sep.join(parts)
RECURSIVE Join(_, _)
Join(parts, sep) ==
    IF Len(parts) = 0 THEN <<>>
    ELSE IF Len(parts) = 1 THEN parts[1]
    ELSE parts[1] \o sep \o Join(Tail(parts), sep)

\* \b at the gap after character p of text (p = 0: the start of the text).
WordBoundary(text, p) ==
    LET before == p >= 1 /\ p <= Len(text) /\ IsWordChar(text[p])
        after == p + 1 >= 1 /\ p + 1 <= Len(text) /\ IsWordChar(text[p + 1])
    IN  before # after

\* A faulty variant: the keyword is matched as a substring, without the \b.
MatchesAtSubstring(text, keyword, i) ==
    /\ i + Len(keyword) - 1 <= Len(text)
    /\ SubSeq(text, i, i + Len(keyword) - 1) = keyword

\* Whether r'\b' + re.escape(keyword) + r'\b' matches text at position i.
MatchesAt(text, keyword, i) ==
    /\ i + Len(keyword) - 1 <= Len(text)
    /\ SubSeq(text, i, i + Len(keyword) - 1) = keyword
    /\ WordBoundary(text, i - 1)
    /\ WordBoundary(text, i + Len(keyword) - 1)

\* len(re.findall(r'\b' + re.escape(keyword) + r'\b', text)) for a non-empty
\* keyword: the matches are found left to right and do not overlap.
RECURSIVE CountFrom(_, _, _)
CountFrom(text, keyword, i) ==
    IF i > Len(text) THEN 0
    ELSE IF MatchesAt(text, keyword, i)
         THEN 1 + CountFrom(text, keyword, i + Len(keyword))
         ELSE CountFrom(text, keyword, i + 1)

CountWholeWord(text, keyword) == CountFrom(text, keyword, 1)

(***************************************************************************)
(* The summarizer's reply.  A reply is [raised |-> message] when the call  *)
(* raises, else [text |-> tokens]: the response text as a sequence of      *)
(* tokens, each a code fence [fence |-> "json"] ("```json") or             *)
(* [fence |-> "plain"] ("```"), a JSON value [json |-> value], or text     *)
(* that is no JSON, [junk |-> TRUE].  A message is a sequence of the       *)
(* pieces the code concatenates.                                           *)
(***************************************************************************)
FenceJson == [fence |-> "json"]
FencePlain == [fence |-> "plain"]
Junk == [junk |-> TRUE]
IsFence(tok) == DOMAIN tok = {"fence"}
IsJson(tok) == DOMAIN tok = {"json"}

\* if response_text.startswith('```json'): response_text = response_text[7:]
StripStart(tokens) ==
    IF Len(tokens) > 0 /\ tokens[1] = FenceJson THEN Tail(tokens) ELSE tokens

\* if response_text.endswith('```'): response_text = response_text[:-3]
StripEnd(tokens) ==
    IF Len(tokens) > 0 /\ tokens[Len(tokens)] = FencePlain
    THEN SubSeq(tokens, 1, Len(tokens) - 1) ELSE tokens

\* The text handed to json.loads.
CleanResponse(tokens) == StripEnd(StripStart(tokens))

\* Whether json.loads raises JSONDecodeError: the text is not one JSON value.
JsonDecodeError(tokens) == ~(Len(tokens) = 1 /\ IsJson(tokens[1]))

\* json.loads(text) when it does not raise.
JsonLoads(tokens) == tokens[1].json

\* A JSON value that is an object has the fields of the record under obj.
IsObject(value) == DOMAIN value = {"obj"}

(***************************************************************************)
(* analyze_restaurant_for_dish_detailed                                    *)
(***************************************************************************)
\* quality_map.get(dish_quality, 4.0), times 100.
QualityScore(dish_quality) ==
    CASE dish_quality = "excellent" -> 900
      [] dish_quality = "good" -> 700
      [] dish_quality = "average" -> 500
      [] dish_quality = "poor" -> 300
      [] dish_quality = "unknown" -> 400
      [] OTHER -> 400

\* A faulty variant: the table is used only when the score is missing, so a
\* score of 0 is kept.
BaseScoreKeepsZero(analysis) ==
    IF analysis.recommendation_score = Absent
    THEN Num(QualityScore(Get(analysis.dish_quality, Str("unknown")).str))
    ELSE analysis.recommendation_score

\* ai_score before the serves_dish adjustment (lines 415-426).
BaseScore(analysis) ==
    LET ai_score == Get(analysis.recommendation_score, Num(0))
    IN  IF ai_score = Num(0)
        THEN Num(QualityScore(Get(analysis.dish_quality, Str("unknown")).str))
        ELSE ai_score

\* not analysis.get("serves_dish", False)
NotServes(analysis) == Get(analysis.serves_dish, [bool |-> FALSE]) # [bool |-> TRUE]

\* Whether ai_score *= 0.5 raises TypeError: the score is not a number.
HalvingRaises(analysis) == NotServes(analysis) /\ ~IsNum(BaseScore(analysis))

\* ai_score after lines 428-430.
AiScore(analysis) ==
    IF NotServes(analysis) THEN Num(BaseScore(analysis).num \div 2)
    ELSE BaseScore(analysis)

\* The record returned for a parsed response (lines 433-445).
AnalyzedRecord(restaurant, analysis) ==
    [name |-> restaurant.name, rating |-> restaurant.rating,
     reviews |-> restaurant.reviews, analysis |-> analysis,
     ai_score |-> AiScore(analysis.obj)]

\* The degraded record of lines 449-465 (score 3) and 468-484 (score 2).
DegradedRecord(restaurant, description, score) ==
    [name |-> restaurant.name, rating |-> restaurant.rating,
     reviews |-> restaurant.reviews,
     analysis |-> [obj |-> [serves_dish |-> [bool |-> FALSE],
                            dish_quality |-> Str("unknown"),
                            dish_description |-> description,
                            recommendation_score |-> Num(score)]],
     ai_score |-> Num(score)]

ParseFailureScore == 300
HardFailureScore == 200

\* A faulty variant: without the handler of JSONDecodeError, the outer handler
\* takes the parse failure too.
AnalyzeOutcomeOneHandler(restaurant, reply) ==
    IF "raised" \in DOMAIN reply
    THEN DegradedRecord(restaurant, "Error analyzing", HardFailureScore)
    ELSE LET text == CleanResponse(reply.text)
         IN  IF \/ JsonDecodeError(text)
                \/ ~IsObject(JsonLoads(text))
                \/ HalvingRaises(JsonLoads(text).obj)
             THEN DegradedRecord(restaurant, "Error analyzing", HardFailureScore)
             ELSE AnalyzedRecord(restaurant, JsonLoads(text))

\* What a unit returns for the summarizer's reply: the except Exception of line
\* 466 takes a raising call, a parsed value that is no object (it has no get)
\* and a score that cannot be halved.
AnalyzeOutcome(restaurant, reply) ==
    IF "raised" \in DOMAIN reply
    THEN DegradedRecord(restaurant, "Error analyzing", HardFailureScore)
    ELSE LET text == CleanResponse(reply.text)
         IN  IF JsonDecodeError(text)
             THEN DegradedRecord(restaurant, "couldn't determine", ParseFailureScore)
             ELSE IF ~IsObject(JsonLoads(text)) \/ HalvingRaises(JsonLoads(text).obj)
             THEN DegradedRecord(restaurant, "Error analyzing", HardFailureScore)
             ELSE AnalyzedRecord(restaurant, JsonLoads(text))

(***************************************************************************)
(* process_dish_search, step 1: the candidates merged from the dataset.    *)
(* A dataset item is [title, totalScore, reviews, text, stars]; a raw      *)
(* review is [text, stars]; each field is Absent when the key is missing.  *)
(***************************************************************************)
\* The number of reviews kept per place: item.get("reviews", [])[:10].
MaxReviewsKept == 10

\* A processed review {"text": ..., "stars": ...}: a text of None becomes "".
ProcessedReview(text, stars) ==
    [text |-> IF Get(text, Str(<<>>)) = None THEN <<>> ELSE Get(text, Str(<<>>)).str,
     stars |-> Get(stars, Num(0)).num]

\* The reviews found inline in a place item.
InlineReviews(item) ==
    IF item.reviews = Absent THEN <<>>
    ELSE LET kept == Take(item.reviews.list, MaxReviewsKept)
         IN  [i \in 1..Len(kept) |-> ProcessedReview(kept[i].text, kept[i].stars)]

\* The restaurant built from an item that has a title.
RestaurantOf(item) ==
    [name |-> item.title.str,
     rating |-> Get(item.totalScore, Num(0)),
     reviews |-> InlineReviews(item)]

\* Whether the first pass raises: item["reviews"] is None and cannot be sliced.
FirstPassRaises(items) ==
    \E i \in 1..Len(items) : items[i].title # Absent /\ items[i].reviews = None

\* The first pass over the dataset: one restaurant per item with a title.
FirstPass(items) ==
    LET titled == SelectSeq(items, LAMBDA item : item.title # Absent)
    IN  [i \in 1..Len(titled) |-> RestaurantOf(titled[i])]

\* restaurants and all(len(restaurant["reviews"]) == 0 for restaurant in restaurants)
NeedsSecondPass(restaurants) ==
    /\ Len(restaurants) > 0
    /\ \A i \in 1..Len(restaurants) : Len(restaurants[i].reviews) = 0

\* restaurant_map[name]: the dict comprehension keeps the last restaurant of a name.
RestaurantMapIndex(restaurants, name) ==
    CHOOSE i \in 1..Len(restaurants) :
        /\ restaurants[i].name = name
        /\ \A j \in (i + 1)..Len(restaurants) : restaurants[j].name # name

\* The second pass: every item with a text and a known title adds a review
\* to the restaurant the map holds for that title.
RECURSIVE SecondPass(_, _)
SecondPass(restaurants, items) ==
    IF Len(items) = 0 THEN restaurants
    ELSE LET item == Head(items)
             known == /\ item.text # Absent
                      /\ item.title # Absent
                      /\ \E i \in 1..Len(restaurants) :
                            restaurants[i].name = item.title.str
         IN  IF ~known THEN SecondPass(restaurants, Tail(items))
             ELSE LET k == RestaurantMapIndex(restaurants, item.title.str)
                      r == restaurants[k]
                      grown == [r EXCEPT !.reviews =
                                  Append(@, ProcessedReview(item.text, item.stars))]
                  IN  SecondPass([restaurants EXCEPT ![k] = grown], Tail(items))

(***************************************************************************)
(* process_dish_search, step 2: the ranking of the merged candidates.      *)
(***************************************************************************)
\* dish_keywords: the lowercased dish, its singular or plural, and the first
\* word of a dish of several words.
DishKeywords(dish) ==
    LET dish_name == Lower(dish)
        plural == IF Len(dish_name) > 0 /\ dish_name[Len(dish_name)] = "s"
                  THEN SubSeq(dish_name, 1, Len(dish_name) - 1)
                  ELSE dish_name \o <<"s">>
    IN  <<dish_name, plural>> \o
        (IF HasSpace(dish_name) THEN <<FirstWord(dish_name)>> ELSE <<>>)

\* ' '.join([review["text"].lower() for review in reviews if review["text"]])
AllReviewText(reviews) ==
    LET nonEmpty == SelectSeq(reviews, LAMBDA r : Len(r.text) > 0)
    IN  Join([i \in 1..Len(nonEmpty) |-> Lower(nonEmpty[i].text)], <<" ">>)

RECURSIVE SumCounts(_, _)
SumCounts(text, keywords) ==
    IF Len(keywords) = 0 THEN 0
    ELSE CountWholeWord(text, Head(keywords)) + SumCounts(text, Tail(keywords))

\* restaurant["keyword_count"]
KeywordCount(restaurant, dish) ==
    SumCounts(AllReviewText(restaurant.reviews), DishKeywords(dish))

\* A faulty variant: keyword_count // 10, the division of integers.
CombinedScoreFloorDiv(rating, keyword_count) ==
    rating.num * 10 * (1 + keyword_count \div 10)

\* restaurant["combined_score"] = rating * (1 + keyword_count / 10), times 100,
\* for a rating that is a number.
CombinedScore(rating, keyword_count) == rating.num * (10 + keyword_count)

\* The loop that gives every restaurant its keyword_count and combined_score.
Annotate(restaurants, dish) ==
    [i \in 1..Len(restaurants) |->
        LET r == restaurants[i]
            kc == KeywordCount(r, dish)
        IN  [name |-> r.name, rating |-> r.rating, reviews |-> r.reviews,
             keyword_count |-> kc,
             combined_score |-> CombinedScore(r.rating, kc)]]

\* The number of candidates kept for the detailed analysis.
TopCandidates == 10

\* A faulty variant: one candidate fewer is kept.
TopRestaurantsShort(restaurants) == Take(restaurants, TopCandidates - 1)

\* restaurants[:10] if len(restaurants) > 10 else restaurants
TopRestaurants(restaurants) ==
    IF Len(restaurants) > TopCandidates THEN Take(restaurants, TopCandidates)
    ELSE restaurants

\* Whether the ranking raises: a rating of None cannot be multiplied (nor
\* compared with a number by the sort).
RankRaises(restaurants) ==
    \E i \in 1..Len(restaurants) : restaurants[i].rating = None

\* A faulty variant: the sort by rating of line 586 is left out.
RankCandidatesUnranked(restaurants, dish) ==
    LET annotated == Annotate(restaurants, dish)
        byScore == SortDescBy(annotated,
                        [i \in 1..Len(annotated) |-> annotated[i].combined_score])
    IN  TopRestaurants(byScore)

\* Lines 584-628 for a list in which no rating is None: sort by rating, annotate,
\* sort by combined_score, keep the first ten.
RankCandidates(restaurants, dish) ==
    LET byRating == SortDescBy(restaurants,
                        [i \in 1..Len(restaurants) |-> restaurants[i].rating.num])
        annotated == Annotate(byRating, dish)
        byScore == SortDescBy(annotated,
                        [i \in 1..Len(annotated) |-> annotated[i].combined_score])
    IN  TopRestaurants(byScore)

(***************************************************************************)
(* process_dish_search, step 3: after the gather.                          *)
(***************************************************************************)
\* if "ai_score" not in restaurant or restaurant["ai_score"] is None: 0.0
EnsureScore(record) ==
    IF record.ai_score = None THEN [record EXCEPT !.ai_score = Num(0)] ELSE record

EnsureScores(analyzed) == [i \in 1..Len(analyzed) |-> EnsureScore(analyzed[i])]

\* Whether analyzed_restaurants.sort raises TypeError: a score that is a str
\* is compared with a score that is a number.
FinalSortRaises(analyzed) ==
    /\ \E i \in 1..Len(analyzed) : IsStr(analyzed[i].ai_score)
    /\ \E i \in 1..Len(analyzed) : IsNum(analyzed[i].ai_score)

\* The key of the final sort; scores that are all the same str compare equal.
FinalKey(record) == IF IsNum(record.ai_score) THEN record.ai_score.num ELSE 0

FinalCount == 5

\* analyzed_restaurants[:5] if len(analyzed_restaurants) >= 5 else all of them,
\* after the sort by ai_score.
FinalRestaurants(analyzed) ==
    LET sorted == SortDescBy(analyzed, [i \in 1..Len(analyzed) |-> FinalKey(analyzed[i])])
    IN  IF Len(sorted) >= FinalCount THEN Take(sorted, FinalCount) ELSE sorted

(***************************************************************************)
(* The single-restaurant path.  A URL is [short, place]: whether it is a   *)
(* shortened link, and the place name its path carries ("" when none).     *)
(* An item of the run's dataset is [name, reviews].                        *)
(***************************************************************************)
\* extract_restaurant_name_from_url, then the default of lines 270-271.
extract_restaurant_name_from_url(url) ==
    IF url.place = "" THEN "Unknown Restaurant" ELSE url.place

\* The message of the ValueError expand_short_url raises (line 250).
ExpandError(message) == <<"Failed to process shortened URL: ">> \o message

\* Whether the loop over the items raises: item["reviews"] is None.
ItemsRaise(items) == \E i \in 1..Len(items) : items[i].reviews = None

\* The reviews of one item, each reduced to its text and stars.
ItemReviews(item) ==
    IF item.reviews = Absent THEN <<>>
    ELSE [i \in 1..Len(item.reviews.list) |->
            [text |-> Get(item.reviews.list[i].text, Str(<<>>)),
             stars |-> Get(item.reviews.list[i].stars, Num(0))]]

RECURSIVE AllReviews(_)
AllReviews(items) ==
    IF Len(items) = 0 THEN <<>>
    ELSE ItemReviews(Head(items)) \o AllReviews(Tail(items))

\* reviews[:10]
TopReviewsKept == 10
TopReviews(items) == Take(AllReviews(items), TopReviewsKept)

\* A faulty variant: a name found in the URL is kept, and the scraped name is
\* taken only when the URL gave none.
RECURSIVE NameAfterUrlFirst(_, _)
NameAfterUrlFirst(restaurant_name, items) ==
    IF Len(items) = 0 THEN restaurant_name
    ELSE LET item == Head(items)
             named == item.name # Absent /\ item.name # Str("")
         IN  NameAfterUrlFirst(IF named /\ restaurant_name = "Unknown Restaurant"
                               THEN item.name.str ELSE restaurant_name, Tail(items))

\* if "name" in item and item["name"]: restaurant_name = item["name"]
RECURSIVE NameAfter(_, _)
NameAfter(restaurant_name, items) ==
    IF Len(items) = 0 THEN restaurant_name
    ELSE LET item == Head(items)
             named == item.name # Absent /\ item.name # Str("")
         IN  NameAfter(IF named THEN item.name.str ELSE restaurant_name, Tail(items))

\* A faulty variant: the parse failure is reported without the raw response.
analyze_reviews_with_gemini_bare(reply) ==
    IF "raised" \in DOMAIN reply
    THEN [error |-> <<"Failed to analyze reviews: ">> \o reply.raised]
    ELSE IF JsonDecodeError(CleanResponse(reply.text))
    THEN [error |-> <<"Failed to parse Gemini response as JSON">>]
    ELSE JsonLoads(CleanResponse(reply.text))

\* analyze_reviews_with_gemini: what it returns for the summarizer's reply.
analyze_reviews_with_gemini(reply) ==
    IF "raised" \in DOMAIN reply
    THEN [error |-> <<"Failed to analyze reviews: ">> \o reply.raised]
    ELSE IF JsonDecodeError(CleanResponse(reply.text))
    THEN [error |-> <<"Failed to parse Gemini response as JSON">>,
          raw_response |-> reply.text]
    ELSE JsonLoads(CleanResponse(reply.text))


(***************************************************************************)
(* The inputs: requests, and what the external services may answer.        *)
(***************************************************************************)
MaxTasks == 2
MaxPlaces == 6

TaskIds == 1..(MaxTasks + 1)

Taco == <<"t", "a", "c", "o">>
Tacos == <<"t", "a", "c", "o", "s">>
Tacold == <<"t", "a", "c", "o", "l", "d">>
DishTaco == <<"T", "a", "c", "o">>

\* What an external call raises.
Timeout == <<"timeout">>
Unavailable == <<"unavailable">>
TypeErrorMessage == <<"TypeError">>

RawReview(text, stars) == [text |-> text, stars |-> stars]

\* An item of a single-restaurant dataset.
RestaurantItem(name, reviews) == [name |-> name, reviews |-> reviews]

\* The items of a dish-search dataset: a place, or a review of a place.
PlaceItem(title, totalScore, reviews) ==
    [title |-> Str(title), totalScore |-> totalScore, reviews |-> reviews,
     text |-> Absent, stars |-> Absent]
ReviewItem(title, text, stars) ==
    [title |-> Str(title), totalScore |-> Absent, reviews |-> Absent,
     text |-> text, stars |-> stars]

\* The i-th place of a search: ratings 3.0, 3.5, ..., 5.0 in turn, every
\* second place with a review that names the dish.
PlaceNo(i) ==
    PlaceItem(ToString(i), Num(30 + 5 * (i % 5)),
              IF i % 2 = 0 THEN List(<<RawReview(Str(Tacos), Num(5))>>) ELSE Absent)

PlacesUpTo(n) == [i \in 1..n |-> PlaceNo(i)]

\* A place and its review delivered as two items.
SplitDataset == <<PlaceItem("A", Num(40), Absent), ReviewItem("A", Str(Taco), Num(4))>>

\* A JSON object as the summarizer of a unit is asked for.
Verdict(serves, quality, score) ==
    [json |-> [obj |-> [serves_dish |-> serves, dish_quality |-> quality,
                        recommendation_score |-> score]]]
GoodVerdict == Verdict([bool |-> TRUE], Str("good"), Num(800))

Summary == [json |-> [obj |-> [summary |-> "s"]]]

\* The inputs of a run of the service: the request bodies, and what the
\* external services may answer.
\*   urls      the bodies of POST /api/scrape-reviews
\*   searches  the bodies of POST /api/find-restaurants (the coordinates and
\*             the radius only reach the review source's input)
\*   messages  what an external call of a job raises
\*   fetches   what requests.get and the scan of the page give for a shortened
\*             link: the canonical URL, or a failure
\*   places    the datasets of a single-restaurant run
\*   searched  the datasets of a dish-search run
\*   verdicts  the summarizer's replies to a unit of the dish search
\*   analyses  the summarizer's replies in the single-restaurant path
\* The small world: every path of both jobs, one answer of each kind.
SmallWorld ==
    [urls |-> {[short |-> TRUE, place |-> ""]},
     searches |-> {[dish |-> DishTaco, location |-> "Boston"]},
     messages |-> {Timeout},
     fetches |-> {[url |-> [short |-> FALSE, place |-> "Luigi"]],
                  [raised |-> Timeout]},
     places |-> {<<RestaurantItem(Str("Trattoria"),
                                  List(<<RawReview(Str(Taco), Num(5))>>))>>},
     searched |-> {SplitDataset},
     verdicts |-> {[text |-> <<GoodVerdict>>], [raised |-> Unavailable]},
     analyses |-> {[text |-> <<Summary>>]}]

\* The full world: links of both kinds, datasets of 0 to MaxPlaces places with
\* inline reviews, split delivery, malformed items, and replies of every kind.
FullWorld ==
    [urls |-> {[short |-> FALSE, place |-> "Luigi"], [short |-> TRUE, place |-> ""]},
     searches |-> {[dish |-> DishTaco, location |-> "Boston"]},
     messages |-> {Timeout, Unavailable},
     fetches |-> {[url |-> [short |-> FALSE, place |-> "Luigi"]],
                  [url |-> [short |-> FALSE, place |-> ""]],
                  [raised |-> Timeout], [raised |-> Unavailable]},
     places |-> {<<RestaurantItem(Str("Trattoria"),
                                  List(<<RawReview(Str(Taco), Num(5))>>))>>,
                 <<RestaurantItem(Absent, Absent)>>,
                 <<RestaurantItem(Str("Trattoria"), Absent),
                   RestaurantItem(Str("Osteria"), Absent),
                   RestaurantItem(Str(""), Absent)>>,
                 <<RestaurantItem(Str("Trattoria"), None)>>},
     searched |-> {PlacesUpTo(k) : k \in 0..MaxPlaces}
                  \cup {SplitDataset,
                        <<PlaceItem("A", None, Absent)>>,
                        <<PlaceItem("A", Num(40), None)>>},
     verdicts |-> {[text |-> <<FenceJson, GoodVerdict, FencePlain>>],
                   [text |-> <<Verdict([bool |-> TRUE], Str("good"), Str("8"))>>],
                   [text |-> <<Junk>>],
                   [raised |-> Unavailable]},
     analyses |-> {[text |-> <<Summary>>], [text |-> <<Junk>>],
                   [text |-> <<FenceJson, Summary, FencePlain>>],
                   [text |-> <<FencePlain, Summary, FencePlain>>],
                   [raised |-> Unavailable]}]

(***************************************************************************)
(* The state.                                                              *)
(***************************************************************************)
VARIABLES
    tasks,      \* the registry: task id -> [state, result]
    kind,       \* task id -> the coroutine created for it
    request,    \* task id -> the request body handed to the job
    pc,         \* task id -> where its job stands
    local,      \* task id -> the local variables of its job
    dataset,    \* task id -> the dataset its review-source run produced
    units,      \* task id -> the analysis units of its gather
    ready,      \* the event loop's queue of coroutines ready to run
    running,    \* the coroutine that holds the event loop, or None
    response,   \* the HTTP response being sent, with its request, or None
    calls,      \* task id -> the external calls started for it
    hist,       \* task id -> the values its state has taken
    raised,     \* task id -> the message of the exception that failed it
    arg,        \* the input of the function under test
    out         \* its output

vars == <<tasks, kind, request, pc, local, dataset, units, ready, running,
          response, calls, hist, raised, arg, out>>
serviceVars == <<tasks, kind, request, pc, local, dataset, units, ready, running,
                 response, calls, hist, raised>>
jobVars == <<kind, request>>
fnVars == <<arg, out>>

NoCalls == [fetch |-> 0, run |-> 0, dataset |-> 0, summarizer |-> 0]

\* The service after start-up: no task, an idle event loop.
InitService ==
    /\ tasks = <<>>
    /\ kind = [t \in TaskIds |-> "none"]
    /\ request = [t \in TaskIds |-> None]
    /\ pc = [t \in TaskIds |-> "none"]
    /\ local = [t \in TaskIds |-> None]
    /\ dataset = [t \in TaskIds |-> <<>>]
    /\ units = [t \in TaskIds |-> <<>>]
    /\ ready = <<>>
    /\ running = None
    /\ response = None
    /\ calls = [t \in TaskIds |-> NoCalls]
    /\ hist = [t \in TaskIds |-> <<>>]
    /\ raised = [t \in TaskIds |-> <<>>]

Init == InitService /\ arg = None /\ out = None

\* The event loop is free to run a handler or a ready coroutine.
LoopFree == running = None /\ response = None

Job(t) == [job |-> t]
Unit(t, i) == [unit |-> i, of |-> t]

(***************************************************************************)
(* The HTTP handlers.                                                      *)
(***************************************************************************)
\* A faulty variant: the id of the latest task is issued again.
uuid4Reused == IF DOMAIN tasks = {} THEN 1 ELSE Cardinality(DOMAIN tasks)

\* str(uuid.uuid4()): an id no task has.  Ids are opaque to the code, so the
\* n-th id issued is named n.
uuid4 == Cardinality(DOMAIN tasks) + 1

\* TaskStatus(state="INITIALIZED")
NewTaskStatus == [state |-> "INITIALIZED", result |-> None]

\* A faulty variant: the registry is rebound to a dict of the new task alone.
StoreOnly(task_id, status) == [t \in {task_id} |-> status]

\* tasks[task_id] = status
Store(task_id, status) ==
    [t \in DOMAIN tasks \cup {task_id} |-> IF t = task_id THEN status ELSE tasks[t]]

\* The body shared by scrape_reviews and find_restaurants: register the task,
\* create the job's coroutine, answer with the id.
Submit(task_id, coroutine, body) ==
    /\ LoopFree
    /\ tasks' = Store(task_id, NewTaskStatus)
    /\ kind' = [kind EXCEPT ![task_id] = coroutine]
    /\ request' = [request EXCEPT ![task_id] = body]
    /\ pc' = [pc EXCEPT ![task_id] = "created"]
    /\ ready' = Append(ready, Job(task_id))
    /\ response' = [request |-> "POST", status_code |-> 200,
                     body |-> [task_id |-> task_id]]
    /\ hist' = [hist EXCEPT ![task_id] = <<"INITIALIZED">>]
    /\ UNCHANGED <<local, dataset, units, running, calls, raised, fnVars>>

\* POST /api/scrape-reviews
scrape_reviews(world) ==
    \E url \in world.urls : Submit(uuid4, "process_restaurant_data", url)

\* POST /api/find-restaurants
find_restaurants(world) ==
    \E search_request \in world.searches :
          Submit(uuid4, "process_dish_search", search_request)

\* A faulty variant: the lookup creates the entry it misses, as a defaultdict
\* would.
get_task_status_creating(task_id) ==
    /\ LoopFree
    /\ tasks' = IF task_id \in DOMAIN tasks THEN tasks
                ELSE Store(task_id, NewTaskStatus)
    /\ response' = [request |-> "GET status", task_id |-> task_id,
                     status_code |-> 200, body |-> tasks'[task_id]]
    /\ UNCHANGED <<kind, request, pc, local, dataset, units, ready,
                   running, calls, hist, raised, fnVars>>

\* GET /api/status/{task_id}
get_task_status(task_id) ==
    /\ LoopFree
    /\ response' = IF task_id \notin DOMAIN tasks
                   THEN [request |-> "GET status", task_id |-> task_id,
                         status_code |-> 404, body |-> [detail |-> "Task not found"]]
                   ELSE [request |-> "GET status", task_id |-> task_id,
                         status_code |-> 200, body |-> tasks[task_id]]
    /\ UNCHANGED <<tasks, kind, request, pc, local, dataset, units, ready,
                   running, calls, hist, raised, fnVars>>

\* GET /wake
wake_up ==
    /\ LoopFree
    /\ response' = [request |-> "GET wake", status_code |-> 200,
                     body |-> [message |-> "I Won't Sleep"]]
    /\ UNCHANGED <<tasks, kind, request, pc, local, dataset, units, ready,
                   running, calls, hist, raised, fnVars>>

\* The response leaves the server.
SendResponse ==
    /\ response # None
    /\ response' = None
    /\ UNCHANGED <<tasks, kind, request, pc, local, dataset, units, ready,
                   running, calls, hist, raised, fnVars>>


(***************************************************************************)
(* The jobs.  No job awaits at an external call: the call is made inside   *)
(* the coroutine's step, which holds the event loop until the call returns *)
(* or raises.  An action is the code from one such return to the next call.*)
(***************************************************************************)
\* The event loop takes coroutine c, the head of its queue, to run it.
Scheduled(c) == LoopFree /\ Len(ready) > 0 /\ Head(ready) = c

\* A faulty variant: the job announces FINALIZING where ANALYZING is due.
SetStateAhead(task_id, state) ==
    [tasks EXCEPT ![task_id].state = IF state = "ANALYZING" THEN "FINALIZING" ELSE state]

\* tasks[task_id].state = state
SetState(task_id, state) == [tasks EXCEPT ![task_id].state = state]

\* One more external call of a kind is started for the task.
Called(task_id, call) == [calls EXCEPT ![task_id][call] = @ + 1]

\* An exception with this message is raised in the job of the task.
Raise(task_id, message) == raised' = [raised EXCEPT ![task_id] = message]

\* A faulty variant: the failure is recorded without its result.
FailedStatusNoResult(message) == [state |-> "FAILED", result |-> None]

\* A faulty variant: a failed task keeps the success flag beside the error.
FailedStatusWithSuccess(message) ==
    [state |-> "FAILED", result |-> [error |-> message, success |-> TRUE]]

\* tasks[task_id].state = "FAILED"; tasks[task_id].result = {"error": str(e)}
FailedStatus(message) == [state |-> "FAILED", result |-> [error |-> message]]

\* A faulty variant: the handler of a failed link resolution lacks its return,
\* so the job goes on to the run of the review source.
FailNoReturn(task_id, message) ==
    /\ tasks' = [tasks EXCEPT ![task_id] = FailedStatus(message)]
    /\ hist' = [hist EXCEPT ![task_id] = Append(@, "FAILED")]
    /\ pc' = [pc EXCEPT ![task_id] = IF @ = "in_fetch" THEN "in_run" ELSE "done"]
    /\ running' = IF pc[task_id] = "in_fetch" THEN running ELSE None

\* The except clause of a job: the task fails with the exception's message
\* and the coroutine ends.
Fail(task_id, message) ==
    /\ tasks' = [tasks EXCEPT ![task_id] = FailedStatus(message)]
    /\ hist' = [hist EXCEPT ![task_id] = Append(@, "FAILED")]
    /\ pc' = [pc EXCEPT ![task_id] = "done"]
    /\ running' = None

\* A faulty variant: the job keeps the id of its task in a name shared by all
\* jobs, so the result is written to the task submitted last.
CompleteLatest(task_id, result) ==
    /\ tasks' = [tasks EXCEPT ![Cardinality(DOMAIN tasks)] =
                    [state |-> "COMPLETED", result |-> result]]
    /\ hist' = [hist EXCEPT ![task_id] = Append(@, "COMPLETED")]
    /\ pc' = [pc EXCEPT ![task_id] = "done"]
    /\ running' = None

\* tasks[task_id].state = "COMPLETED"; tasks[task_id].result = result
Complete(task_id, result) ==
    /\ tasks' = [tasks EXCEPT ![task_id] = [state |-> "COMPLETED", result |-> result]]
    /\ hist' = [hist EXCEPT ![task_id] = Append(@, "COMPLETED")]
    /\ pc' = [pc EXCEPT ![task_id] = "done"]
    /\ running' = None

\* The job writes a state and goes into its next external call.
Advance(task_id, state, call, at) ==
    /\ tasks' = SetState(task_id, state)
    /\ hist' = [hist EXCEPT ![task_id] = Append(@, state)]
    /\ calls' = Called(task_id, call)
    /\ pc' = [pc EXCEPT ![task_id] = at]

(***************************************************************************)
(* process_restaurant_data                                                 *)
(***************************************************************************)
\* Lines 255-283 for a link that is not shortened: FETCHING, then the run.
\* For a shortened link: FETCHING, then the fetch of expand_short_url.
restaurant_start(t) ==
    /\ Scheduled(Job(t)) /\ kind[t] = "process_restaurant_data"
    /\ pc[t] = "created"
    /\ ready' = Tail(ready)
    /\ running' = Job(t)
    /\ IF request[t].short
       THEN /\ Advance(t, "FETCHING", "fetch", "in_fetch")
            /\ UNCHANGED local
       ELSE /\ Advance(t, "FETCHING", "run", "in_run")
            /\ local' = [local EXCEPT ![t] = [expanded_url |-> request[t]]]
    /\ UNCHANGED <<jobVars, dataset, units, response, raised, fnVars>>

\* expand_short_url returns the canonical URL and the run is started
\* (line 283), or raises and the task fails (lines 260-263).
restaurant_fetch_returns(t, world) ==
    /\ running = Job(t) /\ pc[t] = "in_fetch"
    /\ \E outcome \in world.fetches :
          IF "raised" \in DOMAIN outcome
          THEN /\ Raise(t, ExpandError(outcome.raised))
               /\ Fail(t, ExpandError(outcome.raised))
               /\ UNCHANGED <<local, calls>>
          ELSE /\ local' = [local EXCEPT ![t] = [expanded_url |-> outcome.url]]
               /\ calls' = Called(t, "run")
               /\ pc' = [pc EXCEPT ![t] = "in_run"]
               /\ UNCHANGED <<tasks, hist, raised, running>>
    /\ UNCHANGED <<jobVars, dataset, units, ready, response, fnVars>>

\* The run returns: ANALYZING and the read of its dataset (lines 286-291).
restaurant_run_returns(t, world) ==
    /\ running = Job(t) /\ pc[t] = "in_run"
    /\ kind[t] = "process_restaurant_data"
    /\ \E items \in world.places :
          /\ dataset' = [dataset EXCEPT ![t] = items]
          /\ Advance(t, "ANALYZING", "dataset", "in_dataset")
    /\ UNCHANGED <<jobVars, local, units, ready, running, response, raised, fnVars>>

\* The dataset is read: the reviews and the name are taken, then FINALIZING
\* and the call of the summarizer (lines 291-314); or an item cannot be read.
restaurant_dataset_returns(t) ==
    /\ running = Job(t) /\ pc[t] = "in_dataset"
    /\ kind[t] = "process_restaurant_data"
    /\ IF ItemsRaise(dataset[t])
       THEN /\ Raise(t, TypeErrorMessage)
            /\ Fail(t, TypeErrorMessage)
            /\ UNCHANGED <<local, calls>>
       ELSE /\ local' = [local EXCEPT ![t] =
                  [expanded_url |-> local[t].expanded_url,
                   restaurant_name |->
                       NameAfter(extract_restaurant_name_from_url(local[t].expanded_url),
                                 dataset[t]),
                   top_reviews |-> TopReviews(dataset[t])]]
            /\ Advance(t, "FINALIZING", "summarizer", "in_gemini")
            /\ UNCHANGED <<raised, running>>
    /\ UNCHANGED <<jobVars, dataset, units, ready, response, fnVars>>

\* The result of a completed single-restaurant task (lines 317-322).
RestaurantResult(restaurant_name, top_reviews, analysis) ==
    [success |-> TRUE, restaurant_name |-> restaurant_name,
     reviews |-> top_reviews, analysis |-> analysis]

\* The summarizer returns or raises: either way the task completes.
restaurant_gemini_returns(t, world) ==
    /\ running = Job(t) /\ pc[t] = "in_gemini"
    /\ \E reply \in world.analyses :
          Complete(t, RestaurantResult(local[t].restaurant_name, local[t].top_reviews,
                                       analyze_reviews_with_gemini(reply)))
    /\ UNCHANGED <<jobVars, local, dataset, units, ready, response, calls, raised, fnVars>>

\* A faulty variant: a run of the review source that raises is started again.
job_call_retried(t, world) ==
    /\ running = Job(t) /\ pc[t] \in {"in_run", "in_dataset", "in_dataset2"}
    /\ \E message \in world.messages :
          IF pc[t] = "in_run"
          THEN /\ calls' = Called(t, "run")
               /\ UNCHANGED <<tasks, hist, pc, running, raised>>
          ELSE /\ Raise(t, message) /\ Fail(t, message)
               /\ UNCHANGED calls
    /\ UNCHANGED <<jobVars, local, dataset, units, ready, response, fnVars>>

\* An external call of the job raises: the except clause of line 327 or 674.
job_call_raises(t, world) ==
    /\ running = Job(t) /\ pc[t] \in {"in_run", "in_dataset", "in_dataset2"}
    /\ \E message \in world.messages : Raise(t, message) /\ Fail(t, message)
    /\ UNCHANGED <<jobVars, local, dataset, units, ready, response, calls, fnVars>>


(***************************************************************************)
(* process_dish_search                                                     *)
(***************************************************************************)
\* Lines 489-520: FETCHING, then the run of the review source.
dish_start(t) ==
    /\ Scheduled(Job(t)) /\ kind[t] = "process_dish_search"
    /\ pc[t] = "created"
    /\ ready' = Tail(ready)
    /\ running' = Job(t)
    /\ Advance(t, "FETCHING", "run", "in_run")
    /\ UNCHANGED <<jobVars, local, dataset, units, response, raised, fnVars>>

\* The run returns: PROCESSING and the first read of its dataset (lines
\* 523-528).
dish_run_returns(t, world) ==
    /\ running = Job(t) /\ pc[t] = "in_run"
    /\ kind[t] = "process_dish_search"
    /\ \E items \in world.searched :
          /\ dataset' = [dataset EXCEPT ![t] = items]
          /\ Advance(t, "PROCESSING", "dataset", "in_dataset")
    /\ UNCHANGED <<jobVars, local, units, ready, running, response, raised, fnVars>>

\* The new unit of a candidate, as asyncio.create_task leaves it.
NewUnit == [status |-> "created", result |-> None]

\* A faulty variant: the units are created and the job goes on without
\* awaiting their gather.
rank_and_go_on(t, restaurants) ==
    IF RankRaises(restaurants)
    THEN /\ Raise(t, TypeErrorMessage)
         /\ Fail(t, TypeErrorMessage)
         /\ UNCHANGED <<local, units, ready>>
    ELSE LET top_restaurants == RankCandidates(restaurants, request[t].dish)
             n == Len(top_restaurants)
         IN  /\ tasks' = SetState(t, "ANALYZING")
             /\ hist' = [hist EXCEPT ![t] = Append(@, "ANALYZING")]
             /\ local' = [local EXCEPT ![t] = [top_restaurants |-> top_restaurants]]
             /\ units' = [units EXCEPT ![t] = [i \in 1..n |-> NewUnit]]
             /\ ready' = ready \o [i \in 1..n |-> Unit(t, i)]
             /\ pc' = [pc EXCEPT ![t] = "joined"]
             /\ running' = Job(t)
             /\ UNCHANGED raised

\* Lines 584-648 on the merged candidates: the ranking, ANALYZING, one unit
\* per shortlisted candidate, the gather.  The await of a gather of no unit
\* does not suspend the job.
rank_and_gather(t, restaurants) ==
    IF RankRaises(restaurants)
    THEN /\ Raise(t, TypeErrorMessage)
         /\ Fail(t, TypeErrorMessage)
         /\ UNCHANGED <<local, units, ready>>
    ELSE LET top_restaurants == RankCandidates(restaurants, request[t].dish)
             n == Len(top_restaurants)
         IN  /\ tasks' = SetState(t, "ANALYZING")
             /\ hist' = [hist EXCEPT ![t] = Append(@, "ANALYZING")]
             /\ local' = [local EXCEPT ![t] = [top_restaurants |-> top_restaurants]]
             /\ units' = [units EXCEPT ![t] = [i \in 1..n |-> NewUnit]]
             /\ ready' = ready \o [i \in 1..n |-> Unit(t, i)]
             /\ pc' = [pc EXCEPT ![t] = IF n = 0 THEN "joined" ELSE "gather"]
             /\ running' = IF n = 0 THEN Job(t) ELSE None
             /\ UNCHANGED raised

\* The dataset is read (lines 528-555): the places become restaurants; when
\* none has a review the dataset is read again, else the ranking follows.
dish_dataset_returns(t) ==
    /\ running = Job(t) /\ pc[t] = "in_dataset"
    /\ kind[t] = "process_dish_search"
    /\ IF FirstPassRaises(dataset[t])
       THEN /\ Raise(t, TypeErrorMessage)
            /\ Fail(t, TypeErrorMessage)
            /\ UNCHANGED <<local, units, ready, calls>>
       ELSE LET restaurants == FirstPass(dataset[t])
            IN  IF NeedsSecondPass(restaurants)
                THEN /\ local' = [local EXCEPT ![t] = [restaurants |-> restaurants]]
                     /\ calls' = Called(t, "dataset")
                     /\ pc' = [pc EXCEPT ![t] = "in_dataset2"]
                     /\ UNCHANGED <<tasks, hist, raised, units, ready, running>>
                ELSE /\ rank_and_gather(t, restaurants)
                     /\ UNCHANGED calls
    /\ UNCHANGED <<jobVars, dataset, response, fnVars>>

\* The second read of the dataset (lines 566-578), then the ranking.
dish_dataset2_returns(t) ==
    /\ running = Job(t) /\ pc[t] = "in_dataset2"
    /\ rank_and_gather(t, SecondPass(local[t].restaurants, dataset[t]))
    /\ UNCHANGED <<jobVars, dataset, response, calls, fnVars>>

\* A unit is run: it builds its prompt and calls the summarizer (line 401).
unit_start(t, i) ==
    /\ Scheduled(Unit(t, i))
    /\ ready' = Tail(ready)
    /\ running' = Unit(t, i)
    /\ units' = [units EXCEPT ![t][i].status = "calling"]
    /\ calls' = Called(t, "summarizer")
    /\ UNCHANGED <<tasks, jobVars, pc, local, dataset, response, hist, raised, fnVars>>

\* A faulty variant: the gather never sees its units done.
AllDoneNever(us) == FALSE

\* The gather is complete once every unit is done.
AllDone(us) == \A i \in 1..Len(us) : us[i].status = "done"

\* The summarizer returns or raises and the unit ends with its record; the
\* last unit to end wakes the job that awaits the gather.
unit_returns(t, i, world) ==
    /\ running = Unit(t, i)
    /\ \E reply \in world.verdicts :
          LET record == AnalyzeOutcome(local[t].top_restaurants[i], reply)
              us == [units[t] EXCEPT ![i] = [status |-> "done", result |-> record]]
          IN  /\ units' = [units EXCEPT ![t] = us]
              /\ IF AllDone(us)
                 THEN /\ ready' = Append(ready, Job(t))
                      /\ pc' = [pc EXCEPT ![t] = "joined"]
                 ELSE UNCHANGED <<ready, pc>>
    /\ running' = None
    /\ UNCHANGED <<tasks, jobVars, local, dataset, response, calls, hist, raised, fnVars>>

\* The result of a completed dish search (lines 664-669).
DishResult(search_request, final_restaurants) ==
    [success |-> TRUE, dish |-> search_request.dish,
     location |-> search_request.location, restaurants |-> final_restaurants]

\* analyzed_restaurants, in the order of the shortlist.
Gathered(us) == [i \in 1..Len(us) |-> us[i].result]

\* Lines 648-672: the job has the gathered records, sorts them by ai_score,
\* keeps five and completes; or the sort raises and the task fails.
dish_finish(t) ==
    /\ pc[t] = "joined"
    /\ \/ running = Job(t) /\ response = None /\ UNCHANGED ready
       \/ Scheduled(Job(t)) /\ ready' = Tail(ready)
    /\ LET analyzed == EnsureScores(Gathered(units[t]))
       IN  IF FinalSortRaises(analyzed)
           THEN Raise(t, TypeErrorMessage) /\ Fail(t, TypeErrorMessage)
           ELSE /\ Complete(t, DishResult(request[t], FinalRestaurants(analyzed)))
                /\ UNCHANGED raised
    /\ UNCHANGED <<jobVars, local, dataset, units, response, calls, fnVars>>

(***************************************************************************)
(* The service: requests arrive at any time and are served when the event  *)
(* loop is free; the loop runs the coroutines of its queue in order.       *)
(***************************************************************************)
JobStep(t, world) ==
    \/ restaurant_start(t)
    \/ restaurant_fetch_returns(t, world)
    \/ restaurant_run_returns(t, world)
    \/ restaurant_dataset_returns(t)
    \/ restaurant_gemini_returns(t, world)
    \/ job_call_raises(t, world)
    \/ dish_start(t)
    \/ dish_run_returns(t, world)
    \/ dish_dataset_returns(t)
    \/ dish_dataset2_returns(t)
    \/ dish_finish(t)
    \/ \E i \in 1..Len(units[t]) : unit_start(t, i)
    \/ \E i \in 1..Len(units[t]) : unit_returns(t, i, world)

Request ==
    \/ \E task_id \in TaskIds : get_task_status(task_id)
    \/ wake_up
    \/ SendResponse

\* Up to MaxTasks tasks at a time, in the small world.
Next ==
    \/ Cardinality(DOMAIN tasks) < MaxTasks /\ scrape_reviews(SmallWorld)
    \/ Cardinality(DOMAIN tasks) < MaxTasks /\ find_restaurants(SmallWorld)
    \/ Request
    \/ \E t \in TaskIds : JobStep(t, SmallWorld)

Spec == Init /\ [][Next]_vars

\* One task, in the full world.
NextOne ==
    \/ DOMAIN tasks = {} /\ scrape_reviews(FullWorld)
    \/ DOMAIN tasks = {} /\ find_restaurants(FullWorld)
    \/ Request
    \/ \E t \in TaskIds : JobStep(t, FullWorld)

SpecOne == Init /\ [][NextOne]_vars

(***************************************************************************)
(* The ranking step alone, on every list of up to MaxCandidates merged     *)
(* candidates: arg holds the list and the dish, out the shortlist.         *)
(***************************************************************************)
MaxCandidates == 11

\* A review that names the dish eight times.
Praise == Join(<<Tacos, Taco, Tacos, Taco, Tacos, Taco, Tacos, Taco>>, <<" ">>)

\* The candidates a list is built from, name i at position i: rated 5.0 with
\* no review (combined score 5.0), or rated 3.0 with a review that names the
\* dish eight times (combined score 5.4).
Candidates(i) ==
    {[name |-> ToString(i), rating |-> Num(50), reviews |-> <<>>],
     [name |-> ToString(i), rating |-> Num(30),
      reviews |-> <<[text |-> Praise, stars |-> 5]>>]}

InitRank ==
    /\ InitService
    /\ arg = [restaurants |-> <<>>, dish |-> DishTaco]
    /\ out = None

\* One more candidate comes out of the merge.
rank_input ==
    /\ out = None
    /\ Len(arg.restaurants) < MaxCandidates
    /\ \E r \in Candidates(Len(arg.restaurants) + 1) :
          arg' = [arg EXCEPT !.restaurants = Append(@, r)]
    /\ UNCHANGED <<serviceVars, out>>

\* Lines 584-628 run on the list.
rank_apply ==
    /\ out = None
    /\ out' = [top_restaurants |-> RankCandidates(arg.restaurants, arg.dish)]
    /\ UNCHANGED <<serviceVars, arg>>

NextRank == rank_input \/ rank_apply

SpecRank == InitRank /\ [][NextRank]_vars


\* The service under the scheduling the event loop gives: a response being
\* sent is sent, a coroutine at the head of the queue is run, and every
\* external call returns or raises.
FairSpec ==
    /\ Spec
    /\ WF_vars(SendResponse)
    /\ SF_vars(\E t \in TaskIds : JobStep(t, SmallWorld))

(***************************************************************************)
(* The properties.                                                         *)
(***************************************************************************)
Terminal == {"COMPLETED", "FAILED"}
Running == {"INITIALIZED", "FETCHING", "PROCESSING", "ANALYZING", "FINALIZING"}

RestaurantSequence == <<"INITIALIZED", "FETCHING", "ANALYZING", "FINALIZING", "COMPLETED">>
DishSequence == <<"INITIALIZED", "FETCHING", "PROCESSING", "ANALYZING", "COMPLETED">>

StateSequence(coroutine) ==
    IF coroutine = "process_restaurant_data" THEN RestaurantSequence ELSE DishSequence

\* The states that may follow state in the sequence of the job: the next one.
Successors(coroutine, state) ==
    LET seq == StateSequence(coroutine)
    IN  {seq[i + 1] : i \in {j \in 1..(Len(seq) - 1) : seq[j] = state}}

IsPoll(r) == r # None /\ r.request = "GET status"
IsSubmit(r) == r # None /\ r.request = "POST"

\* C1: every change of a task's state goes to the next state of its job's
\* sequence or to FAILED, from a state that is not terminal; a task starts
\* INITIALIZED.
C1_StateFollowsSequence ==
    [][/\ \A t \in DOMAIN tasks' \ DOMAIN tasks : tasks'[t].state = "INITIALIZED"
       /\ \A t \in DOMAIN tasks \cap DOMAIN tasks' :
             tasks'[t].state # tasks[t].state =>
                /\ tasks[t].state \notin Terminal
                /\ tasks'[t].state \in Successors(kind[t], tasks[t].state) \cup {"FAILED"}]_vars

\* Both sequences have been run through to COMPLETED.
C1_Witness ==
    \E t, u \in DOMAIN tasks :
        /\ hist[t] = RestaurantSequence /\ tasks[t].state = "COMPLETED"
        /\ hist[u] = DishSequence /\ tasks[u].state = "COMPLETED"

\* What a poll may show: a running state without result, COMPLETED with a
\* payload, FAILED with an error alone.
Observable(status) ==
    \/ status.state \in Running /\ status.result = None
    \/ status.state = "COMPLETED" /\ "success" \in DOMAIN status.result
    \/ status.state = "FAILED" /\ DOMAIN status.result = {"error"}

\* C2: the result of a task is None exactly while its state is not terminal,
\* it is assigned at most once, and a poll answers with a running state and no
\* result, COMPLETED and a payload, or FAILED and an error.
C2_ResultIffTerminal ==
    /\ [](\A t \in DOMAIN tasks :
             /\ tasks[t].state \in Running \cup Terminal
             /\ tasks[t].state \in Terminal <=> tasks[t].result # None)
    /\ [](IsPoll(response) /\ response.status_code = 200 => Observable(response.body))
    /\ [][\A t \in DOMAIN tasks \cap DOMAIN tasks' :
             tasks'[t].result # tasks[t].result => tasks[t].result = None]_vars

\* A poll is answered with a failed task and its error.
C2_Witness ==
    /\ IsPoll(response)
    /\ response.status_code = 200
    /\ response.body.state = "FAILED"
    /\ \E t \in DOMAIN tasks : tasks[t].state = "COMPLETED"

\* C3: a task that is COMPLETED or FAILED stays in the registry with the same
\* state and the same result through every step of every job and request.
C3_TerminalAbsorbing ==
    [][\A t \in DOMAIN tasks :
          tasks[t].state \in Terminal =>
             t \in DOMAIN tasks' /\ tasks'[t] = tasks[t]]_vars

\* A task is terminal while a later task has run to its end and a poll is
\* being answered.
C3_Witness ==
    /\ 1 \in DOMAIN tasks /\ tasks[1].state = "COMPLETED"
    /\ 2 \in DOMAIN tasks /\ tasks[2].state = "FAILED"
    /\ IsPoll(response)

\* C4: a task whose job raised is FAILED with the error message as its only
\* result field, and once FAILED neither its registry entry changes nor is an
\* external call started for it.
C4_FailureStopsJob ==
    /\ [](\A t \in DOMAIN tasks :
             /\ raised[t] # <<>> => tasks[t].state = "FAILED"
             /\ tasks[t].state = "FAILED" =>
                   raised[t] # <<>> /\ tasks[t].result = [error |-> raised[t]])
    /\ [][\A t \in DOMAIN tasks :
             tasks[t].state = "FAILED" =>
                /\ tasks'[t] = tasks[t]
                /\ calls'[t] = calls[t]
                /\ units'[t] = units[t]]_vars

\* A dish search has failed in its ranking, and a poll has shown it.
C4_Witness ==
    \E t \in DOMAIN tasks :
        /\ hist[t] = <<"INITIALIZED", "FETCHING", "PROCESSING", "FAILED">>
        /\ raised[t] = TypeErrorMessage
        /\ IsPoll(response) /\ response.body = tasks[t]

\* C5: a dish search that has reached ANALYZING does not fail, whatever its
\* units return, and once COMPLETED it lists min(5, shortlist size) restaurants.
C5_UnitFailuresContained ==
    \A t \in DOMAIN tasks :
        (kind[t] = "process_dish_search" /\ \E i \in 1..Len(hist[t]) : hist[t][i] = "ANALYZING")
        => /\ tasks[t].state # "FAILED"
           /\ tasks[t].state = "COMPLETED" =>
                 Len(tasks[t].result.restaurants) = Min(5, Len(units[t]))

\* A dish search has failed from ANALYZING after every unit returned a record.
C5_Witness ==
    \E t \in DOMAIN tasks :
        /\ kind[t] = "process_dish_search"
        /\ hist[t] = <<"INITIALIZED", "FETCHING", "PROCESSING", "ANALYZING", "FAILED">>
        /\ Len(units[t]) >= 2
        /\ AllDone(units[t])

\* Some job is inside an external call.
InExternalCall ==
    \E t \in TaskIds :
        \/ pc[t] \in {"in_fetch", "in_run", "in_dataset", "in_dataset2", "in_gemini"}
        \/ \E i \in 1..Len(units[t]) : units[t][i].status = "calling"

\* C6: while a job waits for an external call, a poll for any task and a new
\* submission can be served.
C6_ServedDuringExternalCalls ==
    InExternalCall =>
        /\ \A task_id \in TaskIds : ENABLED get_task_status(task_id)
        /\ ENABLED scrape_reviews(SmallWorld)
        /\ ENABLED find_restaurants(SmallWorld)

\* A job is inside an external call and holds the event loop, so that no
\* request handler can run.
C6_Witness ==
    /\ InExternalCall
    /\ running # None
    /\ \A task_id \in TaskIds : ~ ENABLED get_task_status(task_id)

\* C7: when every external call returns or raises, every submitted task
\* becomes COMPLETED or FAILED.
C7_EveryTaskTerminates ==
    \A t \in TaskIds :
        (t \in DOMAIN tasks) ~> (t \in DOMAIN tasks /\ tasks[t].state \in Terminal)

\* A dish search has completed through its gather.
C7_Witness ==
    \E t \in DOMAIN tasks :
        /\ kind[t] = "process_dish_search"
        /\ tasks[t].state = "COMPLETED"
        /\ Len(units[t]) > 0

\* C8: the id a submission answers with is new, is in the registry as
\* INITIALIZED without result when it is answered, no id leaves the registry,
\* and a poll for an id in the registry is answered with its task.
C8_IssuedIdsStay ==
    /\ [](IsSubmit(response) =>
             /\ response.body.task_id \in DOMAIN tasks
             /\ tasks[response.body.task_id] = [state |-> "INITIALIZED", result |-> None])
    /\ [](IsPoll(response) /\ response.task_id \in DOMAIN tasks =>
             response.status_code = 200 /\ response.body = tasks[response.task_id])
    /\ [][DOMAIN tasks \subseteq DOMAIN tasks']_vars
    /\ [][IsSubmit(response') /\ response = None =>
             response'.body.task_id \notin DOMAIN tasks]_vars

\* The second submission is being answered, with an id other than the first.
C8_Witness ==
    /\ IsSubmit(response)
    /\ response.body.task_id # 1
    /\ 1 \in DOMAIN tasks /\ tasks[1].state \in Terminal

\* C9: a poll for an id that is not in the registry is answered 404, and no
\* poll changes the registry.
C9_UnknownIdNotFound ==
    /\ [](IsPoll(response) /\ response.task_id \notin DOMAIN tasks =>
             /\ response.status_code = 404
             /\ response.body = [detail |-> "Task not found"])
    /\ [][IsPoll(response') /\ response = None => tasks' = tasks]_vars

\* A poll for an unknown id is answered while the registry holds a task.
C9_Witness ==
    /\ IsPoll(response)
    /\ response.status_code = 404
    /\ DOMAIN tasks # {}

\* The combined score of a merged candidate.
ScoreOf(restaurant, dish) ==
    CombinedScore(restaurant.rating, KeywordCount(restaurant, dish))

\* C10: the shortlist of n candidates has min(10, n) entries, in descending
\* order of combined score, each one a candidate of the list, and no candidate
\* left out scores higher than one that is in.
C10_Shortlist ==
    out # None =>
        LET top == out.top_restaurants
            all == arg.restaurants
            names == {top[i].name : i \in 1..Len(top)}
        IN  /\ Len(top) = Min(10, Len(all))
            /\ \A i \in 1..(Len(top) - 1) : top[i].combined_score >= top[i + 1].combined_score
            /\ Cardinality(names) = Len(top)
            /\ \A i \in 1..Len(top) : \E j \in 1..Len(all) :
                  /\ all[j].name = top[i].name
                  /\ top[i].combined_score = ScoreOf(all[j], arg.dish)
            /\ \A j \in 1..Len(all) : all[j].name \notin names =>
                  \A i \in 1..Len(top) : top[i].combined_score >= ScoreOf(all[j], arg.dish)

\* Eleven candidates of both scores have been ranked and one was left out.
C10_Witness ==
    /\ out # None
    /\ Len(arg.restaurants) = 11
    /\ Len(out.top_restaurants) = 10
    /\ out.top_restaurants[1].combined_score > out.top_restaurants[10].combined_score

\* Whether score a is not below score b, as the sort compares them.
ScoreAtLeast(a, b) == IF IsNum(a) /\ IsNum(b) THEN a.num >= b.num ELSE a = b

\* Whether the record at place j of the analyzed set comes before the one at
\* place i in the order of the final sort: a higher ai_score, or the same
\* ai_score and an earlier place in the shortlist.
RanksBefore(analyzed, j, i) ==
    LET a == analyzed[j].ai_score
        b == analyzed[i].ai_score
    IN  \/ ScoreAtLeast(a, b) /\ ~ScoreAtLeast(b, a)
        \/ ScoreAtLeast(a, b) /\ ScoreAtLeast(b, a) /\ j < i

\* The rank of the record at place i: one more than the records before it.
RankOf(analyzed, i) ==
    1 + Cardinality({j \in 1..Len(analyzed) : RanksBefore(analyzed, j, i)})

\* C11: the restaurants of a COMPLETED dish search are the records of the
\* analyzed set of ranks 1 to min(5, size) in rank order, where a record
\* ranks by ai_score descending and, among equal scores, by its place in the
\* shortlist; the list never has more than 5 entries.
C11_FinalList ==
    \A t \in DOMAIN tasks :
        (kind[t] = "process_dish_search" /\ tasks[t].state = "COMPLETED") =>
            LET final == tasks[t].result.restaurants
                analyzed == Gathered(units[t])
            IN  /\ Len(analyzed) = Len(local[t].top_restaurants)
                /\ Len(final) = Min(5, Len(analyzed))
                /\ Len(final) <= 5
                /\ \A k \in 1..Len(final) : \E i \in 1..Len(analyzed) :
                      RankOf(analyzed, i) = k /\ final[k] = analyzed[i]

\* Six units have returned, five records are listed, the scores differ, two
\* listed records tie, and the record left out ties with the last one listed.
C11_Witness ==
    \E t \in DOMAIN tasks :
        /\ kind[t] = "process_dish_search" /\ tasks[t].state = "COMPLETED"
        /\ Len(units[t]) = 6
        /\ LET final == tasks[t].result.restaurants
               analyzed == Gathered(units[t])
           IN  /\ Len(final) = 5
               /\ final[1].ai_score # final[5].ai_score
               /\ final[1].ai_score = final[2].ai_score
               /\ \E i \in 1..6 :
                     /\ \A k \in 1..5 : final[k].name # analyzed[i].name
                     /\ analyzed[i].ai_score = final[5].ai_score
               /\ final[1].name # analyzed[1].name

(***************************************************************************)
(* One analysis unit alone, on every reply of the summarizer: arg holds    *)
(* the candidate and the reply, out the record the unit returns.           *)
(***************************************************************************)
\* The values the three fields of a parsed reply may carry.
ServesValues == {[bool |-> TRUE], [bool |-> FALSE], Absent}
QualityValues ==
    {Str("excellent"), Str("good"), Str("average"), Str("poor"), Str("unknown"),
     Str("great"), Absent}
ScoreValues == {Absent, Num(0), Num(800), Num(550), Str("8"), None}

\* The JSON values a reply may hold: every object of the three fields, and an
\* array.
ReplyValues ==
    {Verdict(s, q, r) : s \in ServesValues, q \in QualityValues, r \in ScoreValues}
    \cup {[json |-> [arr |-> <<>>]]}

\* What model.generate_content gives a unit: it raises, or its text is a JSON
\* value bare, inside a fence of either kind, behind an unclosed fence, or it
\* is text that is no JSON, or empty.
UnitReplies ==
    {[raised |-> Unavailable], [text |-> <<Junk>>], [text |-> <<>>]}
    \cup {[text |-> <<v>>] : v \in ReplyValues}
    \cup {[text |-> <<FenceJson, v, FencePlain>>] : v \in ReplyValues}
    \cup {[text |-> <<FencePlain, v, FencePlain>>] : v \in ReplyValues}
    \cup {[text |-> <<FenceJson, v>>] : v \in ReplyValues}

\* A shortlisted candidate.
Candidate ==
    [name |-> "A", rating |-> Num(40),
     reviews |-> <<[text |-> Taco, stars |-> 5]>>,
     keyword_count |-> 1, combined_score |-> 440]

\* The summarizer answers the unit's call.
analyze_input ==
    /\ arg = None
    /\ \E reply \in UnitReplies : arg' = [restaurant |-> Candidate, reply |-> reply]
    /\ UNCHANGED <<serviceVars, out>>

\* Lines 400-484 run on the reply.
analyze_apply ==
    /\ arg # None /\ out = None
    /\ out' = AnalyzeOutcome(arg.restaurant, arg.reply)
    /\ UNCHANGED <<serviceVars, arg>>

NextUnit == analyze_input \/ analyze_apply

SpecUnit == Init /\ [][NextUnit]_vars

\* The summarizer's call raised.
CallRaised(reply) == "raised" \in DOMAIN reply

\* The reply's text is not valid JSON once the fences are stripped.
ParseFailure(reply) == ~CallRaised(reply) /\ JsonDecodeError(CleanResponse(reply.text))

\* The reply parses, and the code that reads it raises: the value is no
\* object, or its score cannot be halved.
OtherException(reply) ==
    /\ ~CallRaised(reply) /\ ~ParseFailure(reply)
    /\ LET value == JsonLoads(CleanResponse(reply.text))
       IN  ~IsObject(value) \/ HalvingRaises(value.obj)

\* A record of the degraded shape: the candidate's fields, serves_dish false
\* and dish_quality "unknown".
IsDegraded(record, restaurant) ==
    /\ DOMAIN record = {"name", "rating", "reviews", "analysis", "ai_score"}
    /\ record.name = restaurant.name
    /\ record.rating = restaurant.rating
    /\ record.reviews = restaurant.reviews
    /\ DOMAIN record.analysis.obj =
          {"serves_dish", "dish_quality", "dish_description", "recommendation_score"}
    /\ record.analysis.obj.serves_dish = [bool |-> FALSE]
    /\ record.analysis.obj.dish_quality = Str("unknown")

\* C12: a unit whose reply is not valid JSON after fence-stripping returns a
\* degraded record with ai_score 3.0; a unit whose call raised or that met
\* another exception returns a degraded record with ai_score 2.0; the two
\* scores differ.
C12_DegradedScores ==
    out # None =>
        /\ ParseFailure(arg.reply) =>
              IsDegraded(out, arg.restaurant) /\ out.ai_score = Num(300)
        /\ CallRaised(arg.reply) \/ OtherException(arg.reply) =>
              IsDegraded(out, arg.restaurant) /\ out.ai_score = Num(200)
        /\ ~(ParseFailure(arg.reply) \/ CallRaised(arg.reply) \/ OtherException(arg.reply)) =>
              out.analysis = JsonLoads(CleanResponse(arg.reply.text))
        /\ ParseFailureScore # HardFailureScore

\* A reply inside a fence that the stripping leaves unparseable has given a
\* record of score 3.0.
C12_Witness ==
    /\ out # None
    /\ ParseFailure(arg.reply)
    /\ Len(arg.reply.text) = 3
    /\ out.ai_score = Num(300)

\* The link resolution of the task has failed: expand_short_url raised.
LinkResolutionFailed(t) ==
    raised[t] # <<>> /\ Head(raised[t]) = "Failed to process shortened URL: "

\* C13: a single-restaurant task whose link resolution failed went from
\* FETCHING directly to FAILED, its result is the resolver's error message
\* alone, and no review-source call or summarizer call was made for it.
C13_LinkFailure ==
    \A t \in DOMAIN tasks :
        LinkResolutionFailed(t) =>
            /\ kind[t] = "process_restaurant_data"
            /\ hist[t] = <<"INITIALIZED", "FETCHING", "FAILED">>
            /\ tasks[t].state = "FAILED"
            /\ tasks[t].result = [error |-> raised[t]]
            /\ calls[t].fetch = 1
            /\ calls[t].run = 0 /\ calls[t].dataset = 0 /\ calls[t].summarizer = 0

\* The link resolution has failed on a timeout and a poll shows the failure.
C13_Witness ==
    \E t \in DOMAIN tasks :
        /\ raised[t] = <<"Failed to process shortened URL: ">> \o Timeout
        /\ IsPoll(response) /\ response.body = tasks[t]

\* What the summarizer answered in the single-restaurant path is not kept by
\* the job; the analysis it led to is one of these.
CallFailureAnalysis(message) == [error |-> <<"Failed to analyze reviews: ">> \o message]
ParseFailureAnalysis(text) ==
    [error |-> <<"Failed to parse Gemini response as JSON">>, raw_response |-> text]

\* C14: the summarizer's reply never fails a single-restaurant task: the step
\* that takes the reply completes the task, and when the call raised or the
\* reply did not parse, result.analysis carries {error} or {error,
\* raw_response}.
C14_SummarizerFailureCarried ==
    [][\A t \in DOMAIN tasks :
          (kind[t] = "process_restaurant_data" /\ pc[t] = "in_gemini" /\ pc'[t] # "in_gemini") =>
             /\ tasks'[t].state = "COMPLETED"
             /\ hist'[t] = RestaurantSequence
             /\ raised'[t] = <<>>
             /\ tasks'[t].result.success = TRUE
             /\ \E reply \in FullWorld.analyses :
                   LET analysis == tasks'[t].result.analysis
                   IN  /\ CallRaised(reply) =>
                             /\ analysis = CallFailureAnalysis(reply.raised)
                             /\ DOMAIN analysis = {"error"}
                       /\ ParseFailure(reply) =>
                             /\ analysis = ParseFailureAnalysis(reply.text)
                             /\ DOMAIN analysis = {"error", "raw_response"}
                       /\ ~CallRaised(reply) /\ ~ParseFailure(reply) =>
                             analysis = JsonLoads(CleanResponse(reply.text))]_vars

\* A task has completed with a parse failure carried in its analysis.
C14_Witness ==
    \E t \in DOMAIN tasks :
        /\ kind[t] = "process_restaurant_data"
        /\ tasks[t].state = "COMPLETED"
        /\ DOMAIN tasks[t].result.analysis = {"error", "raw_response"}
        /\ Len(tasks[t].result.analysis.raw_response) = 3

\* The non-empty names the scraped records of a task carry.
ScrapedNames(t) ==
    {dataset[t][i].name.str :
        i \in {j \in 1..Len(dataset[t]) :
                  dataset[t][j].name # Absent /\ dataset[t][j].name # Str("")}}

\* The name guessed from the resolved URL of a task.
UrlGuess(t) ==
    IF local[t].expanded_url.place = "" THEN "Unknown Restaurant"
    ELSE local[t].expanded_url.place

\* C15: the restaurant_name of a COMPLETED single-restaurant task is a name
\* carried by the scraped records whenever one of them carries a non-empty
\* name, and the name guessed from the URL only when none does.
C15_ScrapedNameFirst ==
    \A t \in DOMAIN tasks :
        (kind[t] = "process_restaurant_data" /\ tasks[t].state = "COMPLETED") =>
            IF ScrapedNames(t) # {}
            THEN tasks[t].result.restaurant_name \in ScrapedNames(t)
            ELSE tasks[t].result.restaurant_name = UrlGuess(t)

\* A task has completed with the scraped name although its URL carried
\* another name.
C15_Witness ==
    \E t \in DOMAIN tasks :
        /\ kind[t] = "process_restaurant_data" /\ tasks[t].state = "COMPLETED"
        /\ UrlGuess(t) = "Luigi"
        /\ ScrapedNames(t) # {}
        /\ tasks[t].result.restaurant_name # "Luigi"

\* Every unit launched for the shortlist of a task has returned its record.
AllUnitsReturned(t) ==
    /\ Len(units[t]) = Len(local[t].top_restaurants)
    /\ \A i \in 1..Len(units[t]) :
          units[t][i].status = "done" /\ units[t][i].result # None

\* C16: a dish search is past its gather, or COMPLETED, only when every unit
\* launched for its shortlist has returned, and its state leaves ANALYZING
\* only in a step taken when every unit has returned.
C16_JoinBarrier ==
    /\ [](\A t \in DOMAIN tasks :
             (kind[t] = "process_dish_search"
                 /\ (pc[t] = "joined" \/ tasks[t].state = "COMPLETED"))
             => AllUnitsReturned(t))
    /\ [][\A t \in DOMAIN tasks :
             (kind[t] = "process_dish_search"
                 /\ tasks[t].state = "ANALYZING" /\ tasks'[t].state # "ANALYZING")
             => AllUnitsReturned(t)]_vars

\* The first unit has failed, the job still waits at the gather and another
\* unit has not returned yet.
C16_Witness ==
    \E t \in DOMAIN tasks :
        /\ tasks[t].state = "ANALYZING" /\ pc[t] = "gather"
        /\ Len(units[t]) >= 3
        /\ units[t][1].status = "done" /\ units[t][1].result.ai_score = Num(200)
        /\ units[t][2].status = "calling"
        /\ units[t][3].status = "created"

\* C17: while the summarizer call of one unit is in flight and another unit
\* of the same shortlist has not started, a unit can start its own call.
C17_UnitsRunConcurrently ==
    \A t \in DOMAIN tasks :
        (\E i, j \in 1..Len(units[t]) :
            units[t][i].status = "calling" /\ units[t][j].status = "created")
        => \E j \in 1..Len(units[t]) : ENABLED unit_start(t, j)

\* The call of the first unit is in flight, the other units wait in the
\* event loop's queue and none of them can start; no two calls are in flight.
C17_Witness ==
    \E t \in DOMAIN tasks :
        /\ Len(units[t]) >= 2
        /\ units[t][1].status = "calling"
        /\ running = Unit(t, 1)
        /\ Head(ready) = Unit(t, 2)
        /\ \A j \in 2..Len(units[t]) :
              units[t][j].status = "created" /\ ~ ENABLED unit_start(t, j)

\* The value of the quality table.
TableValue(dish_quality) ==
    CASE dish_quality = Str("excellent") -> 900
      [] dish_quality = Str("good") -> 700
      [] dish_quality = Str("average") -> 500
      [] dish_quality = Str("poor") -> 300
      [] OTHER -> 400

\* The object of a reply that parses to an object whose recommendation_score
\* is a number or missing.
ParsedObject(reply) == JsonLoads(CleanResponse(reply.text)).obj

HasNumericScore(reply) ==
    /\ ~CallRaised(reply) /\ ~ParseFailure(reply)
    /\ IsObject(JsonLoads(CleanResponse(reply.text)))
    /\ ParsedObject(reply).recommendation_score = Absent
          \/ IsNum(ParsedObject(reply).recommendation_score)

\* C18: for a parsed reply, ai_score is recommendation_score when that field
\* is present and not zero, else the table value of dish_quality (4.0 for a
\* quality that is missing or not in the table); the value is halved exactly
\* when serves_dish is not true (false, or missing and read as false).
C18_AiScore ==
    (out # None /\ HasNumericScore(arg.reply)) =>
        LET analysis == ParsedObject(arg.reply)
            score == analysis.recommendation_score
            base == IF score # Absent /\ score # Num(0) THEN score.num
                    ELSE TableValue(analysis.dish_quality)
            halved == analysis.serves_dish # [bool |-> TRUE]
        IN  /\ out.analysis.obj = analysis
            /\ IsNum(out.ai_score)
            /\ halved => 2 * out.ai_score.num = base
            /\ ~halved => out.ai_score.num = base

\* A reply without a score, of quality "excellent", that does not serve the
\* dish has given 4.5.
C18_Witness ==
    /\ out # None
    /\ HasNumericScore(arg.reply)
    /\ ParsedObject(arg.reply).recommendation_score = Num(0)
    /\ ParsedObject(arg.reply).dish_quality = Str("excellent")
    /\ ParsedObject(arg.reply).serves_dish = [bool |-> FALSE]
    /\ out.ai_score = Num(450)

(***************************************************************************)
(* The scoring of lines 604-625 alone, on short lists of candidates of     *)
(* every rating and keyword count.                                         *)
(***************************************************************************)
MaxScored == 3

\* Reviews that name the dish n times, one review each.
Mentions(n) == [i \in 1..n |-> [text |-> Taco, stars |-> 5]]

\* The candidates a scored list is built from, name i at position i: rated
\* 0, 3.0, 3.6 or 5.0, with reviews that name the dish 0, 1, 2 or 10 times.
ScoredCandidates(i) ==
    {[name |-> ToString(i), rating |-> Num(r), reviews |-> Mentions(n)] :
        r \in {0, 30, 36, 50}, n \in {0, 1, 2, 10}}

\* One more candidate comes out of the merge.
score_input ==
    /\ out = None
    /\ Len(arg.restaurants) < MaxScored
    /\ \E r \in ScoredCandidates(Len(arg.restaurants) + 1) :
          arg' = [arg EXCEPT !.restaurants = Append(@, r)]
    /\ UNCHANGED <<serviceVars, out>>

NextScore == score_input \/ rank_apply

SpecScore == InitRank /\ [][NextScore]_vars

\* The candidate of the input list that has a name.
InputOf(name) ==
    arg.restaurants[CHOOSE i \in 1..Len(arg.restaurants) : arg.restaurants[i].name = name]

\* C19: the combined score of every candidate is rating * (1 + keywordCount /
\* 10), here times 100 with the rating times 10; with keywordCount 0 it is the
\* rating; and a candidate rated 5.0 with keywordCount 10 scores 10.0 and ranks
\* above a candidate rated 3.0 with keywordCount 0, which scores 3.0.
C19_CombinedScore ==
    out # None =>
        LET top == out.top_restaurants
        IN  /\ \A k \in 1..Len(top) :
                  /\ top[k].rating = InputOf(top[k].name).rating
                  /\ top[k].keyword_count = Len(InputOf(top[k].name).reviews)
                  /\ top[k].combined_score =
                        top[k].rating.num * (10 + top[k].keyword_count)
                  /\ top[k].keyword_count = 0 =>
                        top[k].combined_score = 10 * top[k].rating.num
            /\ \A k, l \in 1..Len(top) :
                  (/\ top[k].rating = Num(50) /\ top[k].keyword_count = 10
                   /\ top[l].rating = Num(30) /\ top[l].keyword_count = 0)
                  => /\ top[k].combined_score = 1000
                     /\ top[l].combined_score = 300
                     /\ k < l

\* The candidate rated 3.0 without a mention came first in the list and the
\* candidate rated 5.0 with ten mentions is ranked above it.
C19_Witness ==
    /\ out # None
    /\ Len(arg.restaurants) = 2
    /\ arg.restaurants[1].rating = Num(30) /\ Len(arg.restaurants[1].reviews) = 0
    /\ arg.restaurants[2].rating = Num(50) /\ Len(arg.restaurants[2].reviews) = 10
    /\ out.top_restaurants[1].name = arg.restaurants[2].name
    /\ out.top_restaurants[1].combined_score = 1000
    /\ out.top_restaurants[2].combined_score = 300

(***************************************************************************)
(* The keyword count of lines 589-616 alone, on every dish and every short *)
(* list of reviews: arg holds the candidate and the dish, out the count.   *)
(***************************************************************************)
MaxReviews == 3

Cold == <<"c", "o", "l", "d">>
ColdTaco == Cold \o <<" ">> \o Taco
TacoCommaTacos == <<"T", "a", "c", "o", ",", " ">> \o Tacos

\* The dishes searched: "Taco", "tacos", "cold taco".
Dishes == {DishTaco, Tacos, ColdTaco}

\* The review texts: empty, "taco", "tacold", "Taco, tacos", "cold",
\* "cold taco".
ReviewTexts == {<<>>, Taco, Tacold, TacoCommaTacos, Cold, ColdTaco}

InitCount ==
    /\ InitService
    /\ \E dish \in Dishes :
          arg = [restaurant |-> [name |-> "A", rating |-> Num(40), reviews |-> <<>>],
                 dish |-> dish]
    /\ out = None

\* One more review of the candidate comes out of the merge.
count_input ==
    /\ out = None
    /\ Len(arg.restaurant.reviews) < MaxReviews
    /\ \E text \in ReviewTexts :
          arg' = [arg EXCEPT !.restaurant.reviews = Append(@, [text |-> text, stars |-> 5])]
    /\ UNCHANGED <<serviceVars, out>>

\* Lines 589-616 run on the candidate.
count_apply ==
    /\ out = None
    /\ out' = [keyword_count |-> KeywordCount(arg.restaurant, arg.dish)]
    /\ UNCHANGED <<serviceVars, arg>>

NextCount == count_input \/ count_apply

SpecCount == InitCount /\ [][NextCount]_vars

\* The singular or plural counterpart of a word.
Counterpart(word) ==
    IF Len(word) > 0 /\ word[Len(word)] = "s"
    THEN SubSeq(word, 1, Len(word) - 1) ELSE Append(word, "s")

\* The places of the spaces of a word.
Spaces(word) == {i \in 1..Len(word) : word[i] = " "}

\* The first word of a dish of several words.
LeadingWord(word) ==
    SubSeq(word, 1, (CHOOSE i \in Spaces(word) : \A j \in Spaces(word) : i <= j) - 1)

\* The lowercased non-empty review texts of a candidate, concatenated with a
\* space between two texts.
RECURSIVE Concatenated(_)
Concatenated(reviews) ==
    IF Len(reviews) = 0 THEN <<>>
    ELSE LET rest == Concatenated(Tail(reviews))
             text == Lower(Head(reviews).text)
         IN  IF Len(text) = 0 THEN rest
             ELSE IF Len(rest) = 0 THEN text
             ELSE text \o <<" ">> \o rest

\* The number of whole-word occurrences of a keyword in a text: the places
\* where the keyword stands with no letter right before it or right after it.
Occurrences(text, keyword) ==
    Cardinality({i \in 1..(Len(text) - Len(keyword) + 1) :
        /\ SubSeq(text, i, i + Len(keyword) - 1) = keyword
        /\ i = 1 \/ ~IsWordChar(text[i - 1])
        /\ i + Len(keyword) - 1 = Len(text) \/ ~IsWordChar(text[i + Len(keyword)])})

\* C20: the keyword count of a candidate is the sum of the whole-word
\* occurrences, in the lowercased concatenation of its non-empty review
\* texts, of the lowercased dish, of its singular or plural counterpart and,
\* for a dish of several words, of its first word; "tacold" counts nothing
\* for "taco", and reviews that are all empty give 0.
C20_KeywordCount ==
    out # None =>
        LET dish_name == Lower(arg.dish)
            text == Concatenated(arg.restaurant.reviews)
            reviews == arg.restaurant.reviews
        IN  /\ out.keyword_count =
                  Occurrences(text, dish_name)
                  + Occurrences(text, Counterpart(dish_name))
                  + (IF Spaces(dish_name) # {}
                     THEN Occurrences(text, LeadingWord(dish_name)) ELSE 0)
            /\ (\A i \in 1..Len(reviews) : reviews[i].text = <<>>) =>
                  out.keyword_count = 0
            /\ (arg.dish = DishTaco /\ \A i \in 1..Len(reviews) : reviews[i].text = Tacold) =>
                  out.keyword_count = 0

\* For the dish "Taco", the reviews "tacold", "" and "Taco, tacos" count 2:
\* one for "taco", one for "tacos", none for "tacold".
C20_Witness ==
    /\ out # None
    /\ arg.dish = DishTaco
    /\ Len(arg.restaurant.reviews) = 3
    /\ arg.restaurant.reviews[1].text = Tacold
    /\ arg.restaurant.reviews[2].text = <<>>
    /\ arg.restaurant.reviews[3].text = TacoCommaTacos
    /\ out.keyword_count = 2

\* The place of a shortlisted candidate in the list the review source returned.
SourcePlace(name) ==
    CHOOSE i \in 1..Len(arg.restaurants) : arg.restaurants[i].name = name

\* C21: in the shortlist, of two candidates with equal combined score the one
\* with the higher rating stands first, and of two candidates with equal
\* combined score and equal rating the one the review source returned first
\* stands first; so the shortlist is fixed by the list the source returned.
C21_TieBreaks ==
    out # None =>
        LET top == out.top_restaurants
        IN  \A k, l \in 1..Len(top) :
                (k < l /\ top[k].combined_score = top[l].combined_score)
                => /\ top[k].rating.num >= top[l].rating.num
                   /\ top[k].rating = top[l].rating
                         => SourcePlace(top[k].name) < SourcePlace(top[l].name)

\* The source returned a candidate rated 3.0 with ten mentions and then two
\* candidates rated 5.0 with two mentions each: all three score 6.0, and the
\* shortlist holds the two rated 5.0 in the source's order, then the one
\* rated 3.0.
C21_Witness ==
    /\ out # None
    /\ Len(arg.restaurants) = 3
    /\ arg.restaurants[1].rating = Num(30) /\ Len(arg.restaurants[1].reviews) = 10
    /\ arg.restaurants[2].rating = Num(50) /\ Len(arg.restaurants[2].reviews) = 2
    /\ arg.restaurants[3].rating = Num(50) /\ Len(arg.restaurants[3].reviews) = 2
    /\ \A k \in 1..3 : out.top_restaurants[k].combined_score = 600
    /\ out.top_restaurants[1].name = arg.restaurants[2].name
    /\ out.top_restaurants[2].name = arg.restaurants[3].name
    /\ out.top_restaurants[3].name = arg.restaurants[1].name

(***************************************************************************)
(* The merge of lines 526-578 alone, on datasets of up to MaxMerged places *)
(* and up to MaxSplit review records: arg holds the items of the dataset,  *)
(* out the restaurants handed to the ranking and the shortlist made of     *)
(* them.                                                                   *)
(***************************************************************************)
MaxMerged == 2
MaxSplit == 11

\* Lines 526-578: the first pass, and the second when no restaurant has a review.
MergedRestaurants(items) ==
    LET restaurants == FirstPass(items)
    IN  IF NeedsSecondPass(restaurants) THEN SecondPass(restaurants, items)
        ELSE restaurants

\* The place records and the review records of a dataset.
IsPlaceRecord(item) == item.text = Absent
IsReviewRecord(item) == item.text # Absent
PlaceRecords(items) == SelectSeq(items, IsPlaceRecord)
ReviewRecords(items) == SelectSeq(items, IsReviewRecord)

\* The reviews a place record carries inline: none, or one more than is kept.
InlineChoices ==
    {Absent, List([i \in 1..(MaxReviewsKept + 1) |-> RawReview(Str(Tacos), Num(5))])}

\* What a review record carries of its place beside the title: nothing, or
\* the place's rating as well.
RatingChoices == {Absent, Num(40)}

\* The number of the place a review record names.
PlaceNumber(items, title) ==
    CHOOSE p \in 1..Len(PlaceRecords(items)) : PlaceRecords(items)[p].title = title

InitMerge ==
    /\ InitService
    /\ arg = [items |-> <<>>]
    /\ out = None

\* The source delivers one more place, named by its number.
merge_place ==
    /\ out = None
    /\ Len(PlaceRecords(arg.items)) < MaxMerged
    /\ \E reviews \in InlineChoices :
          arg' = [arg EXCEPT !.items =
                    Append(@, PlaceItem(ToString(Len(PlaceRecords(arg.items)) + 1),
                                        Num(40), reviews))]
    /\ UNCHANGED <<serviceVars, out>>

\* The source delivers one more review record of a place it has delivered;
\* the review records come place by place and are all of one form.
merge_review ==
    /\ out = None
    /\ Len(ReviewRecords(arg.items)) < MaxSplit
    /\ \E p \in 1..Len(PlaceRecords(arg.items)), totalScore \in RatingChoices :
          /\ \A i \in 1..Len(ReviewRecords(arg.items)) :
                /\ PlaceNumber(arg.items, ReviewRecords(arg.items)[i].title) <= p
                /\ ReviewRecords(arg.items)[i].totalScore = totalScore
          /\ arg' = [arg EXCEPT !.items =
                       Append(@, [ReviewItem(ToString(p), Str(Taco), Num(4))
                                    EXCEPT !.totalScore = totalScore])]
    /\ UNCHANGED <<serviceVars, out>>

\* Lines 526-628 run on the dataset: the merge, then the ranking.
merge_apply ==
    /\ out = None
    /\ out' = [restaurants |-> MergedRestaurants(arg.items),
               top_restaurants |-> RankCandidates(MergedRestaurants(arg.items),
                                                  DishTaco)]
    /\ UNCHANGED <<serviceVars, arg>>

NextMerge == merge_place \/ merge_review \/ merge_apply

SpecMerge == InitMerge /\ [][NextMerge]_vars

\* The delivery of a dataset: every review inline, or every review apart.
InlineDelivery(items) == Len(ReviewRecords(items)) = 0
SplitDelivery(items) ==
    /\ Len(ReviewRecords(items)) > 0
    /\ \A i \in 1..Len(items) : items[i].reviews = Absent

\* The reviews the source delivered for the place of a title, as the merge
\* keeps them: the inline ones, then the review records of that title.
DeliveredReviews(items, title) ==
    LET place == PlaceRecords(items)[PlaceNumber(items, title)]
        apart == SelectSeq(ReviewRecords(items), LAMBDA item : item.title = title)
    IN  InlineReviews(place) \o
        [i \in 1..Len(apart) |-> ProcessedReview(apart[i].text, apart[i].stars)]

\* C22: under inline and under split delivery the restaurants handed to the
\* ranking are the scraped places, each once and in the source's order, and
\* each holds the reviews delivered for it and no other review.
C22_OneCandidatePerPlace ==
    (out # None /\ (InlineDelivery(arg.items) \/ SplitDelivery(arg.items)))
    => LET places == PlaceRecords(arg.items)
       IN  /\ Len(out.restaurants) = Len(places)
           /\ \A p \in 1..Len(places) :
                 /\ out.restaurants[p].name = places[p].title.str
                 /\ out.restaurants[p].reviews =
                       DeliveredReviews(arg.items, places[p].title)

\* Split delivery of one place and one review record of it: the merge hands
\* over two restaurants of that name, the place without a review and a
\* restaurant rated 0 that holds the review.
C22_Witness ==
    /\ out # None
    /\ SplitDelivery(arg.items)
    /\ Len(PlaceRecords(arg.items)) = 1
    /\ Len(ReviewRecords(arg.items)) = 1
    /\ Len(out.restaurants) = 2
    /\ out.restaurants[1].name = out.restaurants[2].name
    /\ out.restaurants[1].rating = Num(40) /\ Len(out.restaurants[1].reviews) = 0
    /\ out.restaurants[2].rating = Num(0) /\ Len(out.restaurants[2].reviews) = 1

(***************************************************************************)
(* The jobs alone, one task at a time, on searches of up to MaxSearched    *)
(* places: more places than the shortlist holds.                           *)
(***************************************************************************)
MaxSearched == 11

\* The wide world: one link, one dataset of a restaurant; searches that
\* return 0 to MaxSearched places; every external call returns or raises.
WideWorld ==
    [urls |-> {[short |-> TRUE, place |-> ""]},
     searches |-> {[dish |-> DishTaco, location |-> "Boston"]},
     messages |-> {Timeout},
     fetches |-> {[url |-> [short |-> FALSE, place |-> "Luigi"]],
                  [raised |-> Timeout]},
     places |-> {<<RestaurantItem(Str("Trattoria"),
                                  List(<<RawReview(Str(Taco), Num(5))>>))>>},
     searched |-> {PlacesUpTo(k) : k \in 0..MaxSearched} \cup {SplitDataset},
     verdicts |-> {[text |-> <<GoodVerdict>>], [raised |-> Unavailable]},
     analyses |-> {[text |-> <<Summary>>], [raised |-> Unavailable]}]

NextCalls ==
    \/ DOMAIN tasks = {} /\ scrape_reviews(WideWorld)
    \/ DOMAIN tasks = {} /\ find_restaurants(WideWorld)
    \/ SendResponse
    \/ \E t \in TaskIds : JobStep(t, WideWorld)

SpecCalls == Init /\ [][NextCalls]_vars

\* The units of a task that have called the summarizer.
StartedUnits(t) == {i \in 1..Len(units[t]) : units[t][i].status # "created"}

\* C23: a task fetches a shortened link at most once and starts at most one
\* run of the review source; a single-restaurant task calls the summarizer at
\* most once; a dish-search task calls it once for every unit that has
\* started, one unit per shortlisted candidate, so at most 10 times; and a
\* task that has failed or completed starts no further call.
C23_NoRetry ==
    /\ [](\A t \in DOMAIN tasks :
             /\ calls[t].fetch <= 1
             /\ calls[t].run <= 1
             /\ kind[t] = "process_restaurant_data" => calls[t].summarizer <= 1
             /\ kind[t] = "process_dish_search" =>
                   /\ calls[t].summarizer = Cardinality(StartedUnits(t))
                   /\ calls[t].summarizer <= Len(units[t])
                   /\ Len(units[t]) <= TopCandidates)
    /\ [][\A t \in DOMAIN tasks :
             tasks[t].state \in Terminal => calls'[t] = calls[t]]_vars

\* A dish search found more places than the shortlist holds and every unit
\* has called the summarizer, the first of them in vain: ten calls after one
\* run, and the task is complete.
C23_Witness ==
    \E t \in DOMAIN tasks :
        /\ kind[t] = "process_dish_search"
        /\ Len(dataset[t]) = MaxSearched
        /\ tasks[t].state = "COMPLETED"
        /\ calls[t].run = 1
        /\ calls[t].summarizer = TopCandidates
        /\ units[t][1].result.ai_score = Num(HardFailureScore)

\* The entries of the registry other than that of a task.
OtherEntries(t) == [u \in DOMAIN tasks \ {t} |-> tasks[u]]

\* C24: every step of the job of a task, and of its units, leaves the
\* registry's entry of every other task as it is and adds or removes no
\* entry; and a status poll leaves the whole registry as it is.
C24_OwnEntryOnly ==
    /\ [][\A t \in TaskIds :
             JobStep(t, SmallWorld) =>
                 /\ DOMAIN tasks' = DOMAIN tasks
                 /\ [u \in DOMAIN tasks' \ {t} |-> tasks'[u]] = OtherEntries(t)]_vars
    /\ [][(\E task_id \in TaskIds : get_task_status(task_id)) => tasks' = tasks]_vars

\* The second task has been run to its end by its job while the first, a
\* dish search, waits for its units: the first is still ANALYZING without a
\* result, and a poll for it is being answered.
C24_Witness ==
    /\ DOMAIN tasks = {1, 2}
    /\ kind[1] = "process_dish_search"
    /\ pc[1] = "gather"
    /\ tasks[1] = [state |-> "ANALYZING", result |-> None]
    /\ tasks[2].state \in Terminal
    /\ IsPoll(response) /\ response.task_id = 1

\* C25: every candidate of the shortlist, which is what the analysis units
\* are handed, holds at most 10 reviews, under inline and under split
\* delivery.
C25_AtMostTenReviews ==
    out # None =>
        \A k \in 1..Len(out.top_restaurants) :
            Len(out.top_restaurants[k].reviews) <= MaxReviewsKept

\* Split delivery of one place and eleven review records that carry the
\* place's rating: the first candidate of the shortlist holds eleven reviews.
C25_Witness ==
    /\ out # None
    /\ SplitDelivery(arg.items)
    /\ Len(PlaceRecords(arg.items)) = 1
    /\ Len(ReviewRecords(arg.items)) = MaxReviewsKept + 1
    /\ Len(out.top_restaurants) = TopCandidates
    /\ Len(out.top_restaurants[1].reviews) = MaxReviewsKept + 1

=============================================================================
